---- MODULE Spec2Model ----
(***************************************************************************)
(* Model of build_calendar.py (StegnerLab/Basketball-Calendar).            *)
(*                                                                         *)
(* A text is a sequence of atoms.  The keywords the code matches on        *)
(* ("BEGIN:VEVENT", "END:VEVENT", "UID:", "SUMMARY:", "DTSTART") and the   *)
(* two terminator characters CR and LF are one atom each; every other atom *)
(* is an opaque, non-empty piece of text that contains neither a keyword   *)
(* nor a line break.  Team names, option labels and option values are      *)
(* sequences of single characters, because norm() and strip() work on      *)
(* characters.                                                             *)
(***************************************************************************)
EXTENDS Integers, Sequences, FiniteSets, TLC

VARIABLES
    pc,        \* position of main(): which statement runs next
    t,         \* index into TARGETS of the loop of main()
    ms_id,     \* main(): ms_id of the current target
    ics,       \* main(): ics of the current target (after fetch_ics)
    events,    \* main(): events of the current target
    k,         \* main(): index of the inner loop `for ev in events`
    merged,    \* main(): merged
    file,      \* content of calendar.ics, NoFile while it was not written
    nwrites,   \* number of writes of calendar.ics
    calls,     \* requests.get calls issued so far, in order
    got,       \* per finished fetch: the resolved id and the normalised feed
    bare,      \* some response so far had a line terminator other than CR+LF
    error,     \* the exception that ended the run, if any
    hashseed,  \* the per-process seed of hash() on str
    rs_in,     \* fetch_team_id on its own: the arguments and page of one call
    rs_out,    \* fetch_team_id on its own: what that call returned or raised
    tx_in,     \* prefix_uid on its own: event record, prefix and team name
    tx_out     \* prefix_uid on its own: results of the calls made on tx_in

vars == <<pc, t, ms_id, ics, events, k, merged, file, nwrites, calls, got, bare,
          error, hashseed, rs_in, rs_out, tx_in, tx_out>>

\* the variables main() does not touch
auxVars == <<rs_in, rs_out, tx_in, tx_out>>

mainVars == <<pc, t, ms_id, ics, events, k, merged, file, nwrites, calls, got, bare, error>>

-----------------------------------------------------------------------------
(* Bounds of the model *)

\* main() loops over the first NTargets entries of TARGETS
NTargets == 2

\* hash() seeds of the process range over 0..MaxSeed
MaxSeed == 1

\* abs(hash(s)) ranges over 0..HashHalf
HashHalf == 3

\* SpecResolve pads an option list with up to MaxFill further options
MaxFill == 11

\* SpecTransform takes event records of up to MaxBodyLines body lines
MaxBodyLines == 3

-----------------------------------------------------------------------------
(* Program constants *)

CR == "\r"
LF == "\n"
CRLF == <<CR, LF>>

TARGETS == <<
    << <<"T","S","V"," ","G","r","o","m","b","ü","h","l"," ","2">>, "51127" >>,
    << <<"T","S","V"," ","G","r","o","m","b","ü","h","l">>, "52205" >>,
    << <<"T","S","V"," ","G","r","o","m","b","ü","h","l"," ","A","K">>, "51052" >>,
    << <<"T","G"," ","V","e","i","t","s","h","ö","c","h","h","e","i","m">>, "49758" >> >>

SPT == "-1"

\* candidates[:10] in fetch_team_id
SampleMax == 10

NoFile == << "<no file>" >>
NoError == [kind |-> "none"]

-----------------------------------------------------------------------------
(* General sequence helpers: Python's str operations on atom sequences *)

Range(s) == {s[i] : i \in 1..Len(s)}

\* str.startswith at position p
StartsWithAt(s, p, pat) ==
    /\ p + Len(pat) - 1 <= Len(s)
    /\ SubSeq(s, p, p + Len(pat) - 1) = pat

\* `needle in hay`
Contains(hay, needle) ==
    \E i \in 1..(Len(hay) - Len(needle) + 1) : StartsWithAt(hay, i, needle)

RECURSIVE ReplaceFrom(_, _, _, _)
ReplaceFrom(s, p, old, new) ==
    IF p > Len(s) THEN <<>>
    ELSE IF StartsWithAt(s, p, old)
         THEN new \o ReplaceFrom(s, p + Len(old), old, new)
         ELSE <<s[p]>> \o ReplaceFrom(s, p + 1, old, new)

\* str.replace(old, new): every non-overlapping occurrence, left to right
Replace(s, old, new) == ReplaceFrom(s, 1, old, new)

RECURSIVE SplitFrom(_, _, _, _)
SplitFrom(s, p, sep, cur) ==
    IF p > Len(s) THEN <<cur>>
    ELSE IF StartsWithAt(s, p, sep)
         THEN <<cur>> \o SplitFrom(s, p + Len(sep), sep, <<>>)
         ELSE SplitFrom(s, p + 1, sep, Append(cur, s[p]))

\* str.split(sep)
Split(s, sep) == SplitFrom(s, 1, sep, <<>>)

RECURSIVE Join(_, _)
\* sep.join(parts)
Join(parts, sep) ==
    IF parts = <<>> THEN <<>>
    ELSE IF Len(parts) = 1 THEN parts[1]
    ELSE parts[1] \o sep \o Join(Tail(parts), sep)

RECURSIVE Flatten(_)
\* "".join(parts)
Flatten(parts) == IF parts = <<>> THEN <<>> ELSE parts[1] \o Flatten(Tail(parts))

-----------------------------------------------------------------------------
(* norm *)

Whitespace == {" ", "\t", "\n", "\r", "U+00A0"}

\* the combining diaeresis U+0308, the one combining mark NFKD produces here
Combining == "U+0308"

UpperCase == <<"A","B","C","D","E","F","G","H","I","J","K","L","M",
               "N","O","P","Q","R","S","T","U","V","W","X","Y","Z">>
LowerCase == <<"a","b","c","d","e","f","g","h","i","j","k","l","m",
               "n","o","p","q","r","s","t","u","v","w","x","y","z">>

\* html.unescape of one atom (a character reference is one atom)
Unescape1(c) ==
    CASE c = "&uuml;" -> "ü"
      [] c = "&Uuml;" -> "Ü"
      [] c = "&ouml;" -> "ö"
      [] c = "&amp;"  -> "&"
      [] c = "&nbsp;" -> "U+00A0"
      [] OTHER -> c

Unescape(s) == [i \in 1..Len(s) |-> Unescape1(s[i])]

RECURSIVE CollapseWs(_, _)
\* re.sub(r"\s+", " ", s): p is the position to read next
CollapseWs(s, p) ==
    IF p > Len(s) THEN <<>>
    ELSE IF s[p] \in Whitespace
         THEN IF p > 1 /\ s[p - 1] \in Whitespace
              THEN CollapseWs(s, p + 1)
              ELSE <<" ">> \o CollapseWs(s, p + 1)
         ELSE <<s[p]>> \o CollapseWs(s, p + 1)

RECURSIVE LStrip(_)
LStrip(s) == IF s # <<>> /\ s[1] \in Whitespace THEN LStrip(Tail(s)) ELSE s

RECURSIVE RStrip(_)
RStrip(s) ==
    IF s # <<>> /\ s[Len(s)] \in Whitespace THEN RStrip(SubSeq(s, 1, Len(s) - 1)) ELSE s

\* str.strip()
Strip(s) == LStrip(RStrip(s))

\* unicodedata.normalize("NFKD", c) of one character
Nfkd1(c) ==
    CASE c = "ü" -> <<"u", Combining>>
      [] c = "Ü" -> <<"U", Combining>>
      [] c = "ö" -> <<"o", Combining>>
      [] c = "Ö" -> <<"O", Combining>>
      [] c = "ä" -> <<"a", Combining>>
      [] c = "U+00A0" -> <<" ">>
      [] OTHER -> <<c>>

\* str.casefold() of one character
CaseFold1(c) ==
    IF \E i \in 1..Len(UpperCase) : UpperCase[i] = c
    THEN <<LowerCase[CHOOSE i \in 1..Len(UpperCase) : UpperCase[i] = c]>>
    ELSE IF c = "ß" THEN <<"s", "s">> ELSE <<c>>

RECURSIVE Nfkd(_)
\* unicodedata.normalize("NFKD", s)
Nfkd(s) == IF s = <<>> THEN <<>> ELSE Nfkd1(s[1]) \o Nfkd(Tail(s))

RECURSIVE CaseFold(_)
\* s.casefold()
CaseFold(s) == IF s = <<>> THEN <<>> ELSE CaseFold1(s[1]) \o CaseFold(Tail(s))

IsNotCombining(ch) == ch # Combining

norm(s) ==
    LET s1 == Unescape(s)
        s2 == Strip(CollapseWs(s1, 1))
        s3 == Nfkd(s2)
        s4 == SelectSeq(s3, IsNotCombining)
    IN  CaseFold(s4)

-----------------------------------------------------------------------------
(* fetch_team_id: the page is given as OPT_RE.findall(block), a sequence of *)
(* <<val, label>> pairs in document order                                   *)

RECURSIVE StripTagsFrom(_, _)
\* re.sub(r"<.*?>", "", label): '.' does not match "\n"
StripTagsFrom(s, p) ==
    IF p > Len(s) THEN <<>>
    ELSE LET closers == {q \in (p + 1)..Len(s) :
                            /\ s[q] = ">"
                            /\ \A j \in (p + 1)..(q - 1) : s[j] # "\n"}
         IN  IF s[p] = "<" /\ closers # {}
             THEN StripTagsFrom(s, 1 + CHOOSE q \in closers : \A r \in closers : q <= r)
             ELSE <<s[p]>> \o StripTagsFrom(s, p + 1)

StripTags(s) == StripTagsFrom(s, 1)

\* the values fetch_team_id skips: `val.strip() in ("-1", "")`
SkippedVals == { <<"-", "1">>, <<>> }

RECURSIVE CandidatesOf(_)
\* the loop that fills `candidates`
CandidatesOf(options) ==
    IF options = <<>> THEN <<>>
    ELSE LET val == options[1][1]
             label == options[1][2]
             label_clean == norm(StripTags(label))
             rest == CandidatesOf(Tail(options))
         IN  IF Strip(val) \in SkippedVals
             THEN rest
             ELSE << [label_clean |-> label_clean,
                      val |-> Strip(val),
                      original |-> Strip(StripTags(label))] >> \o rest

\* 1) exakter Match
ExactMatch(c, wanted) == c.label_clean = wanted

\* 2) contains match
ContainsMatch(c, wanted) ==
    Contains(c.label_clean, wanted) \/ Contains(wanted, c.label_clean)

\* the least member of a set of indices, 0 if there is none
FirstOf(hits) == IF hits = {} THEN 0 ELSE CHOOSE i \in hits : \A j \in hits : i <= j

\* index of the candidate the first loop returns on, 0 if it falls through
FirstExact(candidates, wanted) ==
    FirstOf({i \in 1..Len(candidates) : ExactMatch(candidates[i], wanted)})

\* index of the candidate the second loop returns on, 0 if it falls through
FirstContains(candidates, wanted) ==
    FirstOf({i \in 1..Len(candidates) : ContainsMatch(candidates[i], wanted)})

\* candidates[:10] taken without the limit
Sample_Unlimited(candidates) == [i \in 1..Len(candidates) |-> candidates[i].original]

\* candidates[:10]
Sample(candidates) ==
    LET n == IF Len(candidates) < SampleMax THEN Len(candidates) ELSE SampleMax
    IN  [i \in 1..n |-> candidates[i].original]

\* fetch_team_id with both tests in one loop: the first candidate that
\* matches either way wins
fetch_team_id_OnePass(team_name, liga_id, options) ==
    LET wanted == norm(team_name)
        candidates == CandidatesOf(options)
        c == FirstContains(candidates, wanted)
    IN  IF c # 0 THEN [kind |-> "return", val |-> candidates[c].val]
        ELSE [kind |-> "RuntimeError", what |-> "nicht im Dropdown gefunden",
              team_name |-> team_name, liga_id |-> liga_id,
              sample |-> Sample(candidates)]

fetch_team_id(team_name, liga_id, options) ==
    LET wanted == norm(team_name)
        candidates == CandidatesOf(options)
        e == FirstExact(candidates, wanted)
        c == FirstContains(candidates, wanted)
    IN  IF e # 0 THEN [kind |-> "return", val |-> candidates[e].val]
        ELSE IF c # 0 THEN [kind |-> "return", val |-> candidates[c].val]
        ELSE [kind |-> "RuntimeError", what |-> "nicht im Dropdown gefunden",
              team_name |-> team_name, liga_id |-> liga_id,
              sample |-> Sample(candidates)]

-----------------------------------------------------------------------------
(* fetch_ics, extract_events *)

\* NormalizeCRLF without its second replace: a bare CR stays
NormalizeCRLF_KeepsBareCR(text) ==
    Replace(Replace(text, <<CR, LF>>, <<LF>>), <<LF>>, <<CR, LF>>)

\* text.replace("\r\n", "\n").replace("\r", "\n").replace("\n", "\r\n")
NormalizeCRLF(text) ==
    Replace(Replace(Replace(text, <<CR, LF>>, <<LF>>), <<CR>>, <<LF>>), <<LF>>, <<CR, LF>>)

\* length of the match of \r?\n at p, 0 if there is none
LineEndAt(s, p) ==
    IF StartsWithAt(s, p, <<CR, LF>>) THEN 2
    ELSE IF StartsWithAt(s, p, <<LF>>) THEN 1
    ELSE 0

\* position after the match of \r?\nEND:VEVENT\r?\n at q, 0 if there is none
EndMarkerAt(s, q) ==
    LET a == LineEndAt(s, q)
        b == LineEndAt(s, q + a + 1)
    IN  IF a # 0 /\ StartsWithAt(s, q + a, <<"END:VEVENT">>) /\ b # 0
        THEN q + a + 1 + b
        ELSE 0

\* position after the match of VEVENT_RE at p, 0 if there is none; .*? with
\* re.DOTALL takes the fewest atoms that let the rest match
EventEndAt(s, p) ==
    LET a == LineEndAt(s, p + 1)
        stops == {q \in (p + 1 + a)..Len(s) : EndMarkerAt(s, q) # 0}
    IN  IF StartsWithAt(s, p, <<"BEGIN:VEVENT">>) /\ a # 0 /\ stops # {}
        THEN EndMarkerAt(s, CHOOSE q \in stops : \A r \in stops : q <= r)
        ELSE 0

RECURSIVE FindAllFrom(_, _)
FindAllFrom(s, p) ==
    IF p > Len(s) THEN <<>>
    ELSE LET e == EventEndAt(s, p)
         IN  IF e # 0
             THEN <<SubSeq(s, p, e - 1)>> \o FindAllFrom(s, e)
             ELSE FindAllFrom(s, p + 1)

\* VEVENT_RE.findall(ics_text)
extract_events(ics_text) == FindAllFrom(ics_text, 1)

-----------------------------------------------------------------------------
(* prefix_uid and the SUMMARY rewrite of main *)

\* position of the first LF at or after p, 0 if there is none
FirstLF(s, p) ==
    LET lfs == {n \in p..Len(s) : s[n] = LF}
    IN  IF lfs = {} THEN 0 ELSE CHOOSE n \in lfs : \A m \in lfs : n <= m

\* position of the LF that ends the match of ^<key>(.+)\r\n at p under
\* re.MULTILINE, 0 if there is no match at p: '.' matches anything but LF
LineMatchAt(s, p, key) ==
    LET n == FirstLF(s, p + 1)
    IN  IF /\ (p = 1 \/ s[p - 1] = LF)
           /\ s[p] = key
           /\ n >= p + 3
           /\ s[n - 1] = CR
        THEN n
        ELSE 0

RECURSIVE ReSubLineFrom(_, _, _, _, _)
ReSubLineFrom(s, p, key, before, after) ==
    IF p > Len(s) THEN <<>>
    ELSE LET n == LineMatchAt(s, p, key)
         IN  IF n # 0
             THEN <<key>> \o before \o SubSeq(s, p + 1, n - 2) \o after \o CRLF
                  \o ReSubLineFrom(s, n + 1, key, before, after)
             ELSE <<s[p]>> \o ReSubLineFrom(s, p + 1, key, before, after)

RECURSIVE ReSubAnywhereFrom(_, _, _, _, _)
ReSubAnywhereFrom(s, p, key, before, after) ==
    IF p > Len(s) THEN <<>>
    ELSE LET n == FirstLF(s, p + 1)
         IN  IF s[p] = key /\ n >= p + 3 /\ s[n - 1] = CR
             THEN <<key>> \o before \o SubSeq(s, p + 1, n - 2) \o after \o CRLF
                  \o ReSubAnywhereFrom(s, n + 1, key, before, after)
             ELSE <<s[p]>> \o ReSubAnywhereFrom(s, p + 1, key, before, after)

\* ReSubLine with the pattern not anchored at the start of a line
ReSubLine_Unanchored(s, key, before, after) == ReSubAnywhereFrom(s, 1, key, before, after)

\* re.sub(r"^<key>(.+)\r\n", lambda m: f"<key>{before}{m.group(1)}{after}\r\n",
\*        s, flags=re.MULTILINE): no count is given
ReSubLine(s, key, before, after) == ReSubLineFrom(s, 1, key, before, after)

\* atoms hash() tells apart; any other atom hashes like the last one
HashAtoms == <<"BEGIN:VEVENT", "END:VEVENT", CR, LF, "UID:", "DTSTART", "SUMMARY:">>

AtomCode(a) ==
    IF \E i \in 1..Len(HashAtoms) : HashAtoms[i] = a
    THEN CHOOSE i \in 1..Len(HashAtoms) : HashAtoms[i] = a
    ELSE Len(HashAtoms) + 1

RECURSIVE HashSum(_, _)
HashSum(s, i) == IF i > Len(s) THEN 0 ELSE i * AtomCode(s[i]) + HashSum(s, i + 1)

\* hash(event_text): a function of the process seed and the text, signed
hash(seed, s) == ((seed + HashSum(s, 1)) % (2 * HashHalf + 1)) - HashHalf

abs(n) == IF n < 0 THEN 0 - n ELSE n

RECURSIVE InsertUid(_, _, _)
\* the loop over `lines`: i is the next line, inserted the flag
InsertUid(lines, uidline, inserted) ==
    IF lines = <<>> THEN <<>>
    ELSE LET line == lines[1]
             hit == (~inserted) /\ line # <<>> /\ line[1] = "DTSTART"
         IN  IF hit
             THEN <<line, uidline>> \o InsertUid(Tail(lines), uidline, TRUE)
             ELSE <<line>> \o InsertUid(Tail(lines), uidline, inserted)

prefix_uid(event_text, prefix, seed) ==
    IF Contains(event_text, <<"UID:">>)
    THEN ReSubLine(event_text, "UID:", prefix \o <<"-">>, <<>>)
    ELSE LET uid == prefix \o <<"-", ToString(abs(hash(seed, event_text))),
                                "@basketball-bund.net">>
             lines == Split(event_text, CRLF)
         IN  Join(InsertUid(lines, <<"UID:">> \o uid, FALSE), CRLF)

\* main: re.sub(r"^SUMMARY:(.+)\r\n", ... f"SUMMARY:{m.group(1)} [{team_name}]\r\n" ...)
AnnotateSummary(ev2, team_name) ==
    ReSubLine(ev2, "SUMMARY:", <<>>, <<" [">> \o team_name \o <<"]">>)

\* prefix = f"liga{liga_id}-team{ms_id}"
Prefix(liga_id, ms) == <<"liga", liga_id, "-team">> \o ms

\* body of `for ev in events`
Transform(ev, liga_id, ms, team_name, seed) ==
    AnnotateSummary(prefix_uid(ev, Prefix(liga_id, ms), seed), team_name)

RECURSIVE DedupeFrom(_, _, _)
DedupeFrom(s, i, keys) ==
    IF i > Len(s) THEN keys
    ELSE IF s[i] \in Range(keys)
         THEN DedupeFrom(s, i + 1, keys)
         ELSE DedupeFrom(s, i + 1, Append(keys, s[i]))

RECURSIVE DedupeLastFrom(_, _)
DedupeLastFrom(s, i) ==
    IF i > Len(s) THEN <<>>
    ELSE IF \E j \in (i + 1)..Len(s) : s[j] = s[i]
         THEN DedupeLastFrom(s, i + 1)
         ELSE <<s[i]>> \o DedupeLastFrom(s, i + 1)

\* Dedupe keeping the last occurrence of a record instead of the first
Dedupe_KeepsLast(s) == DedupeLastFrom(s, 1)

\* list(dict.fromkeys(merged))
Dedupe(s) == DedupeFrom(s, 1, <<>>)

ensure_calendar_header ==
    <<"BEGIN:VCALENDAR", CR, LF,
      "VERSION:2.0", CR, LF,
      "PRODID:-//David//BB Kalender Merge//DE", CR, LF,
      "CALSCALE:GREGORIAN", CR, LF,
      "METHOD:PUBLISH", CR, LF,
      "X-WR-CALNAME:Basketball Spiele", CR, LF,
      "X-WR-TIMEZONE:Europe/Berlin", CR, LF,
      "X-PUBLISHED-TTL:PT168H", CR, LF>>

\* the string main writes
Assemble(now, evs) ==
    ensure_calendar_header
    \o <<"X-WR-CALDESC:Automatisch generiert. Letztes Update: ", now, CR, LF>>
    \o Flatten(evs)
    \o <<"END:VCALENDAR", CR, LF>>

-----------------------------------------------------------------------------
(* What the portal can answer *)

AlleMannschaften == << <<"-", "1">>, <<"-", " ", "a", "l", "l", "e", " ", "-">> >>

\* a dropdown that lists the configured teams, one label written with
\* character references and padding, one inside markup
PageAll ==
    << AlleMannschaften,
       << <<"4","2","5","2","7","7">>, <<"T","S","V"," ","G","r","o","m","b","ü","h","l">> >>,
       << <<"4","2","5","2","7","6">>,
          <<" ","T","S","V","&nbsp;"," ","G","r","o","m","b","&uuml;","h","l"," ","2"," ">> >>,
       << <<"4","2","5","2","7","8">>,
          <<"<","b",">","t","s","v"," ","G","R","O","M","B","Ü","H","L"," ","a","k","<","/","b",">">> >>,
       << <<"4","2","5","2","7","9">>,
          <<"T","G"," ","V","e","i","t","s","h","ö","c","h","h","e","i","m">> >> >>

\* a dropdown whose only team matches by containment
PageClub ==
    << AlleMannschaften,
       << <<" ","9","9"," ">>, <<"G","r","o","m","b","ü","h","l">> >> >>

\* a dropdown of another league
PageOther ==
    << AlleMannschaften,
       << <<"5">>, <<"B","G"," ","H","e","s","s","i","n","g">> >> >>

Pages == {PageAll, PageClub, PageOther}

L_uidA == <<"UID:", "a">>
L_uidB == <<"UID:", "b">>
L_uidEmpty == <<"UID:">>
L_xuid == <<"X-", "UID:", "a">>
L_dt1 == <<"DTSTART", ":20250101T180000">>
L_dt2 == <<"DTSTART", ";VALUE=DATE:20250202">>
L_sumH == <<"SUMMARY:", "Heimspiel">>
L_sumG == <<"SUMMARY:", "Gast">>
L_sumEmpty == <<"SUMMARY:">>
L_desc == <<"DESCRIPTION:", "x">>
L_empty == <<>>

\* event bodies (lines between BEGIN:VEVENT and END:VEVENT) of the feeds of main
BodyPlain == <<L_uidA, L_dt1, L_sumH>>
BodySameUid == <<L_uidA, L_dt2, L_sumG>>
BodyNoUid == <<L_dt1, L_sumH>>
BodyBare == <<L_desc>>
BodyXUid == <<L_dt1, L_xuid>>

\* the event lists of the feeds of main; the empty one is a feed without events
FeedEvents ==
    { <<>>,
      <<BodyPlain>>,
      <<BodyPlain, BodySameUid, BodyPlain>>,
      <<BodyNoUid>>,
      <<BodyXUid, BodyBare>> }

\* the terminators of a response: pat[(j % 3) + 1] ends line j
TermPatterns ==
    { << <<CR, LF>>, <<CR, LF>>, <<CR, LF>> >>,
      << <<LF>>, <<LF>>, <<LF>> >>,
      << <<CR>>, <<CR>>, <<CR>> >>,
      << <<LF>>, <<CR>>, <<CR, LF>> >> }

RECURSIVE EventLines(_)
EventLines(bodies) ==
    IF bodies = <<>> THEN <<>>
    ELSE << <<"BEGIN:VEVENT">> >> \o bodies[1] \o << <<"END:VEVENT">> >>
         \o EventLines(Tail(bodies))

FeedLines(bodies) ==
    << <<"BEGIN:VCALENDAR">>, <<"VERSION:2.0">> >> \o EventLines(bodies)
    \o << <<"END:VCALENDAR">> >>

RECURSIVE Render(_, _, _)
\* the response text: line j ends with pat[(j % 3) + 1]
Render(lines, j, pat) ==
    IF j > Len(lines) THEN <<>>
    ELSE lines[j] \o pat[(j % 3) + 1] \o Render(lines, j + 1, pat)

Feeds == { Render(FeedLines(b), 1, pat) : b \in FeedEvents, pat \in TermPatterns }

\* datetime.now(timezone.utc).strftime("%Y%m%dT%H%M%SZ")
Timestamps == {"20250101T000000Z", "20251231T235959Z"}

-----------------------------------------------------------------------------
(* main *)

team_name == TARGETS[t][1]
liga_id == TARGETS[t][2]

Fail(e) ==
    /\ pc' = "failed"
    /\ error' = e

\* fetch_team_id: requests.get raises, or raise_for_status does
FetchTeamIdHttpError ==
    /\ pc = "fetch_team_id"
    /\ calls' = Append(calls, [fn |-> "fetch_team_id", target |-> t, liga_id |-> liga_id])
    /\ Fail([kind |-> "HTTPError", fn |-> "fetch_team_id"])
    /\ UNCHANGED <<t, ms_id, ics, events, k, merged, file, nwrites, got, bare, hashseed, auxVars>>

\* fetch_team_id on a page that was delivered
FetchTeamId ==
    /\ pc = "fetch_team_id"
    /\ calls' = Append(calls, [fn |-> "fetch_team_id", target |-> t, liga_id |-> liga_id])
    /\ \E page \in Pages :
          LET r == fetch_team_id(team_name, liga_id, page)
          IN  IF r.kind = "return"
              THEN /\ ms_id' = r.val
                   /\ pc' = "fetch_ics"
                   /\ UNCHANGED error
              ELSE /\ Fail(r)
                   /\ UNCHANGED ms_id
    /\ UNCHANGED <<t, ics, events, k, merged, file, nwrites, got, bare, hashseed, auxVars>>

FetchIcsCall ==
    [fn |-> "fetch_ics", target |-> t, typ |-> "2", liga_id |-> liga_id,
     ms_liga_id |-> ms_id, spt |-> SPT]

\* fetch_ics: requests.get raises, or raise_for_status does
FetchIcsHttpError ==
    /\ pc = "fetch_ics"
    /\ calls' = Append(calls, FetchIcsCall)
    /\ Fail([kind |-> "HTTPError", fn |-> "fetch_ics"])
    /\ UNCHANGED <<t, ms_id, ics, events, k, merged, file, nwrites, got, bare, hashseed, auxVars>>

\* fetch_ics on a feed that was delivered
FetchIcs ==
    /\ pc = "fetch_ics"
    /\ calls' = Append(calls, FetchIcsCall)
    /\ \E text \in Feeds :
          LET normalized == NormalizeCRLF(text)
          IN  /\ ics' = normalized
              /\ got' = Append(got, [ms_id |-> ms_id, ics |-> normalized])
              /\ bare' = (bare \/ text # normalized)
    /\ pc' = "extract"
    /\ UNCHANGED <<t, ms_id, events, k, merged, file, nwrites, error, hashseed, auxVars>>

\* ExtractEvents that skips a target without events instead of raising
ExtractEvents_SkipsEmpty ==
    /\ pc = "extract"
    /\ events' = extract_events(ics)
    /\ k' = 1
    /\ pc' = "transform"
    /\ UNCHANGED <<t, ms_id, ics, merged, file, nwrites, calls, got, bare, error, hashseed, auxVars>>

\* events = extract_events(ics); if not events: raise RuntimeError
ExtractEvents ==
    /\ pc = "extract"
    /\ LET evs == extract_events(ics)
       IN  IF evs = <<>>
           THEN /\ Fail([kind |-> "RuntimeError", what |-> "Keine VEVENTs gefunden",
                         team_name |-> team_name, liga_id |-> liga_id, ms_id |-> ms_id])
                /\ UNCHANGED <<events, k>>
           ELSE /\ events' = evs
                /\ k' = 1
                /\ pc' = "transform"
                /\ UNCHANGED error
    /\ UNCHANGED <<t, ms_id, ics, merged, file, nwrites, calls, got, bare, hashseed, auxVars>>

\* one pass of `for ev in events`
TransformEvent ==
    /\ pc = "transform"
    /\ k <= Len(events)
    /\ merged' = Append(merged, Transform(events[k], liga_id, ms_id, team_name, hashseed))
    /\ k' = k + 1
    /\ UNCHANGED <<pc, t, ms_id, ics, events, file, nwrites, calls, got, bare, error, hashseed, auxVars>>

\* NextTarget that may leave the inner loop before it is exhausted
NextTarget_LeavesEarly ==
    /\ pc = "transform"
    /\ k > 1
    /\ IF t < NTargets
       THEN /\ t' = t + 1
            /\ pc' = "fetch_team_id"
       ELSE /\ pc' = "dedupe"
            /\ UNCHANGED t
    /\ UNCHANGED <<ms_id, ics, events, k, merged, file, nwrites, calls, got, bare, error, hashseed, auxVars>>

\* the inner loop is exhausted: next target, or leave `for team_name, liga_id`
NextTarget ==
    /\ pc = "transform"
    /\ k > Len(events)
    /\ IF t < NTargets
       THEN /\ t' = t + 1
            /\ pc' = "fetch_team_id"
       ELSE /\ pc' = "dedupe"
            /\ UNCHANGED t
    /\ UNCHANGED <<ms_id, ics, events, k, merged, file, nwrites, calls, got, bare, error, hashseed, auxVars>>

\* merged = list(dict.fromkeys(merged))
DedupeMerged ==
    /\ pc = "dedupe"
    /\ merged' = Dedupe(merged)
    /\ pc' = "write"
    /\ UNCHANGED <<t, ms_id, ics, events, k, file, nwrites, calls, got, bare, error, hashseed, auxVars>>

\* build `out` and write it to calendar.ics
WriteFile ==
    /\ pc = "write"
    /\ \E now \in Timestamps : file' = Assemble(now, merged)
    /\ nwrites' = nwrites + 1
    /\ pc' = "done"
    /\ UNCHANGED <<t, ms_id, ics, events, k, merged, calls, got, bare, error, hashseed, auxVars>>

\* the state of main() before its first statement, at position p
MainAt(p) ==
    /\ pc = p
    /\ t = 1
    /\ ms_id = <<>>
    /\ ics = <<>>
    /\ events = <<>>
    /\ k = 1
    /\ merged = <<>>
    /\ file = NoFile
    /\ nwrites = 0
    /\ calls = <<>>
    /\ got = <<>>
    /\ bare = FALSE
    /\ error = NoError

Init ==
    /\ MainAt("fetch_team_id")
    /\ hashseed \in 0..MaxSeed
    /\ rs_in = <<>>
    /\ rs_out = <<>>
    /\ tx_in = <<>>
    /\ tx_out = <<>>

Next ==
    \/ FetchTeamIdHttpError
    \/ FetchTeamId
    \/ FetchIcsHttpError
    \/ FetchIcs
    \/ ExtractEvents
    \/ TransformEvent
    \/ NextTarget
    \/ DedupeMerged
    \/ WriteFile

Spec == Init /\ [][Next]_vars

-----------------------------------------------------------------------------
(* fetch_team_id on its own: one call on a bounded set of pages *)

WantedNames == { <<"G", "ü">>, <<"G", "ü", " ", "2">>, <<"x", "y">> }

OptionVals == { <<"7">>, <<" ", "8", " ">>, <<" ", "-", "1">>, <<" ">> }

OptionLabels ==
    { <<"g", "u">>,
      <<" ", "G", "&uuml;", " ", " ", "2">>,
      <<"2">>,
      <<"<", "b", ">", "G", "Ü", "<", "/", "b", ">">>,
      <<"z">>,
      <<>> }

RichOptions == { <<v, l>> : v \in OptionVals, l \in OptionLabels }

\* at most one option taken from RichOptions
ShortLists == { <<>> } \cup { <<o>> : o \in RichOptions }

\* n further options no wanted name matches, each with its own label
Filler(n) == [i \in 1..n |-> << <<"9", ToString(i)>>, <<"z", ToString(i)>> >>]

ResolveInputs ==
    { [team_name |-> w, liga_id |-> "51127", options |-> a \o Filler(n) \o b] :
        w \in WantedNames, a \in ShortLists, b \in ShortLists, n \in 0..MaxFill }

NotCalled == [kind |-> "not called"]

InitResolve ==
    /\ MainAt("off")
    /\ hashseed = 0
    /\ rs_in \in ResolveInputs
    /\ rs_out = NotCalled
    /\ tx_in = <<>>
    /\ tx_out = <<>>

ResolveCall ==
    /\ rs_out = NotCalled
    /\ rs_out' = fetch_team_id(rs_in.team_name, rs_in.liga_id, rs_in.options)
    /\ UNCHANGED <<mainVars, hashseed, rs_in, tx_in, tx_out>>

NextResolve == ResolveCall

SpecResolve == InitResolve /\ [][NextResolve]_vars

-----------------------------------------------------------------------------
(* prefix_uid and the SUMMARY rewrite on their own: event records as      *)
(* extract_events returns them                                            *)

BodyLines == {L_uidA, L_uidEmpty, L_xuid, L_dt1, L_sumH, L_sumEmpty, L_desc}

BodiesOfLen(n) == [1..n -> BodyLines]

Bodies == UNION { BodiesOfLen(n) : n \in 1..MaxBodyLines }

\* the record extract_events returns for a feed with the one event `body`
RecordOf(body) ==
    extract_events(NormalizeCRLF(Render(FeedLines(<<body>>), 1, << <<LF>>, <<CR>>, <<CR, LF>> >>)))[1]

EventRecords == { RecordOf(b) : b \in Bodies }

NotYet == << "<not yet>" >>

InitTransform ==
    /\ MainAt("off")
    /\ hashseed \in 0..MaxSeed
    /\ rs_in = <<>>
    /\ rs_out = <<>>
    /\ tx_in \in { [ev |-> e, liga_id |-> TARGETS[1][2], ms_id |-> <<"4","2","5","2","7","6">>,
                    team_name |-> TARGETS[1][1]] : e \in EventRecords }
    /\ tx_out = [ev2 |-> NotYet, again |-> NotYet, out |-> NotYet]

\* ev2 = prefix_uid(ev, prefix)
TxPrefixUid ==
    /\ tx_out.ev2 = NotYet
    /\ tx_out' = [tx_out EXCEPT
                    !.ev2 = prefix_uid(tx_in.ev, Prefix(tx_in.liga_id, tx_in.ms_id), hashseed)]
    /\ UNCHANGED <<mainVars, hashseed, rs_in, rs_out, tx_in>>

\* a second call of prefix_uid on the same record in the same process
TxPrefixUidAgain ==
    /\ tx_out.ev2 # NotYet
    /\ tx_out.again = NotYet
    /\ tx_out' = [tx_out EXCEPT
                    !.again = prefix_uid(tx_in.ev, Prefix(tx_in.liga_id, tx_in.ms_id), hashseed)]
    /\ UNCHANGED <<mainVars, hashseed, rs_in, rs_out, tx_in>>

\* ev2 = re.sub(r"^SUMMARY:(.+)\r\n", ..., ev2, flags=re.MULTILINE)
TxAnnotate ==
    /\ tx_out.ev2 # NotYet
    /\ tx_out.out = NotYet
    /\ tx_out' = [tx_out EXCEPT !.out = AnnotateSummary(tx_out.ev2, tx_in.team_name)]
    /\ UNCHANGED <<mainVars, hashseed, rs_in, rs_out, tx_in>>

NextTransform ==
    \/ TxPrefixUid
    \/ TxPrefixUidAgain
    \/ TxAnnotate

SpecTransform == InitTransform /\ [][NextTransform]_vars

-----------------------------------------------------------------------------
(* Vocabulary of the properties *)

\* the lines of a text whose lines end with CR+LF (the piece after the last
\* terminator, empty for a record, is not a line)
LinesOf(text) ==
    LET parts == Split(text, CRLF) IN SubSeq(parts, 1, Len(parts) - 1)

StartsWith(line, key) == line # <<>> /\ line[1] = key

\* the values of the UID fields of a record
UidValues(ev) ==
    LET ls == LinesOf(ev)
    IN  { Tail(ls[i]) : i \in {j \in 1..Len(ls) : StartsWith(ls[j], "UID:")} }

\* the transformed events of target j, in feed order
ExpectedOf(j) ==
    LET evs == extract_events(got[j].ics)
    IN  [i \in 1..Len(evs) |->
            Transform(evs[i], TARGETS[j][2], got[j].ms_id, TARGETS[j][1], hashseed)]

RECURSIVE ExpectedUpTo(_)
\* the transformed events of targets 1..n, targets in configured order
ExpectedUpTo(n) == IF n = 0 THEN <<>> ELSE ExpectedUpTo(n - 1) \o ExpectedOf(n)

FirstIndexOf(x, s) == CHOOSE i \in 1..Len(s) : s[i] = x /\ \A j \in 1..(i - 1) : s[j] # x

\* r is s with every element that equals an earlier one removed
IsFirstOccurrences(r, s) ==
    /\ Range(r) = Range(s)
    /\ \A a, b \in 1..Len(r) : a < b => r[a] # r[b]
    /\ \A a, b \in 1..Len(r) : a < b => FirstIndexOf(r[a], s) < FirstIndexOf(r[b], s)

\* every LF follows a CR, every CR is followed by a LF, and the text ends with CR+LF
WellTerminated(text) ==
    /\ text # <<>>
    /\ text[Len(text)] = LF
    /\ \A p \in 1..Len(text) :
          /\ text[p] = LF => (p > 1 /\ text[p - 1] = CR)
          /\ text[p] = CR => (p < Len(text) /\ text[p + 1] = LF)

-----------------------------------------------------------------------------
(* Properties of main, checked under Spec *)

\* C1: after a successful run every event record of the output has a UID
\* field value, and no two distinct records of the output carry the same one.
C1_UidsUnique ==
    pc = "done" =>
        /\ \A i \in 1..Len(merged) : UidValues(merged[i]) \ {<<>>} # {}
        /\ \A i, j \in 1..Len(merged) :
              i < j => UidValues(merged[i]) \cap UidValues(merged[j]) = {}

\* C2: calendar.ics is written at most once, and only by a run in which no
\* step failed and every configured target was resolved, fetched, found to
\* have events and transformed; a run that failed has written nothing.
C2_WriteOnlyAfterAll ==
    /\ nwrites <= 1
    /\ (file = NoFile) <=> (nwrites = 0)
    /\ (pc = "failed") <=> (error # NoError)
    /\ pc = "failed" => nwrites = 0
    /\ nwrites = 1 =>
          /\ pc = "done"
          /\ Len(calls) = 2 * NTargets
          /\ Len(got) = NTargets
          /\ \A j \in 1..NTargets : extract_events(got[j].ics) # <<>>
          /\ Range(merged) = Range(ExpectedUpTo(NTargets))

\* a run that failed at its last target, after events were accumulated
C2_Witness ==
    /\ pc = "failed"
    /\ t = NTargets
    /\ error.kind = "RuntimeError"
    /\ merged # <<>>
    /\ file = NoFile

\* C3: the events written are the transformed events of all targets (targets
\* in configured order, events in feed order) with every record equal to an
\* earlier one removed: each distinct record once, at the place of its first
\* occurrence, nothing added, nothing reordered.
C3_FirstOccurrencesInOrder ==
    file # NoFile =>
        /\ IsFirstOccurrences(merged, ExpectedUpTo(NTargets))
        /\ \E now \in Timestamps : file = Assemble(now, merged)

\* a written run whose accumulated sequence had the shape A, B, A
C3_Witness ==
    /\ file # NoFile
    /\ LET acc == ExpectedUpTo(NTargets)
       IN  \E a, b, c \in 1..Len(acc) :
              a < b /\ b < c /\ acc[a] = acc[c] /\ acc[a] # acc[b]

\* C4: an event text that the feeds of two targets with different prefixes
\* both contain is transformed into two different records.
C4_NoFalseDedup ==
    pc = "done" =>
        \A i, j \in 1..NTargets :
            (i < j /\ Prefix(TARGETS[i][2], got[i].ms_id) # Prefix(TARGETS[j][2], got[j].ms_id)) =>
                \A e \in Range(extract_events(got[i].ics)) \cap Range(extract_events(got[j].ics)) :
                    Transform(e, TARGETS[i][2], got[i].ms_id, TARGETS[i][1], hashseed)
                        # Transform(e, TARGETS[j][2], got[j].ms_id, TARGETS[j][1], hashseed)

\* C9: the n-th network call is the resolve call (n odd) or the feed call
\* (n even) of target (n + 1) \div 2; when a call for a target is issued,
\* merged holds exactly the transformed events of all earlier targets; and
\* no call is issued after a failure.
C9_Sequential ==
    [][ calls' # calls =>
          /\ Len(calls') = Len(calls) + 1
          /\ SubSeq(calls', 1, Len(calls)) = calls
          /\ LET n == Len(calls')
                 c == calls'[n]
             IN  /\ c.fn = (IF n % 2 = 1 THEN "fetch_team_id" ELSE "fetch_ics")
                 /\ c.target = (n + 1) \div 2
                 /\ Len(got) = c.target - 1
                 /\ merged = ExpectedUpTo(c.target - 1)
          /\ pc # "failed"
          /\ error = NoError ]_vars

\* the feed call of the last target was issued after earlier targets left events
C9_Witness ==
    /\ Len(calls) = 2 * NTargets
    /\ calls[Len(calls)].fn = "fetch_ics"
    /\ Len(merged) >= 2

\* C10: every line of the written document ends with CR+LF: no LF without a
\* CR before it, no CR without a LF after it.
C10_CrLfOnly == file # NoFile => WellTerminated(file)

\* a written document, made from a feed with other terminators, that holds
\* a synthesized UID line and an annotated SUMMARY line
C10_Witness ==
    /\ file # NoFile
    /\ bare
    /\ Contains(file, <<"@basketball-bund.net", CR, LF>>)
    /\ Contains(file, <<"]", CR, LF>>)

-----------------------------------------------------------------------------
(* Properties of fetch_team_id, checked under SpecResolve *)

MinOf(S) == CHOOSE i \in S : \A j \in S : i <= j

\* the options that are not discarded, by position in the page
Considered(options) ==
    { i \in 1..Len(options) : Strip(options[i][1]) \notin { <<"-", "1">>, <<>> } }

NormLabel(option) == norm(StripTags(option[2]))

\* the considered options whose normalized label equals the normalized name
ExactHits(in) ==
    { i \in Considered(in.options) : NormLabel(in.options[i]) = norm(in.team_name) }

\* the considered options whose normalized label contains the normalized
\* name or is contained in it
ContainHits(in) ==
    { i \in Considered(in.options) :
        \/ Contains(NormLabel(in.options[i]), norm(in.team_name))
        \/ Contains(norm(in.team_name), NormLabel(in.options[i])) }

\* position in the page of the n-th considered option
NthConsidered(options, n) ==
    CHOOSE i \in Considered(options) :
        Cardinality({ j \in Considered(options) : j <= i }) = n

\* C7: only options whose value is neither "-1" nor empty count; the first
\* of them with an equal normalized label is returned if there is one, else
\* the first of them whose normalized label contains the name or is
\* contained in it.
C7_ExactThenContains ==
    rs_out # NotCalled =>
        LET ex == ExactHits(rs_in)
            co == ContainHits(rs_in)
        IN  /\ ex # {} =>
                 rs_out = [kind |-> "return", val |-> Strip(rs_in.options[MinOf(ex)][1])]
            /\ (ex = {} /\ co # {}) =>
                 rs_out = [kind |-> "return", val |-> Strip(rs_in.options[MinOf(co)][1])]

\* an exact match was returned although an earlier option with another
\* value matches by containment, behind a discarded option
C7_Witness ==
    /\ rs_out # NotCalled
    /\ ExactHits(rs_in) # {}
    /\ MinOf(ContainHits(rs_in)) < MinOf(ExactHits(rs_in))
    /\ rs_out.val # Strip(rs_in.options[MinOf(ContainHits(rs_in))][1])
    /\ rs_out.val = Strip(rs_in.options[MinOf(ExactHits(rs_in))][1])

\* C8: the call fails exactly when no considered option matches in either
\* pass; the error carries the name, the league id and the labels (markup
\* removed, trimmed) of the first min(10, n) considered options in page
\* order, and no team id.
C8_NotFoundError ==
    rs_out # NotCalled =>
        LET n == Cardinality(Considered(rs_in.options))
            m == IF n < 10 THEN n ELSE 10
        IN  /\ (rs_out.kind = "RuntimeError") <=> (ExactHits(rs_in) \cup ContainHits(rs_in) = {})
            /\ rs_out.kind \in {"RuntimeError", "return"}
            /\ rs_out.kind = "RuntimeError" =>
                  /\ rs_out.team_name = rs_in.team_name
                  /\ rs_out.liga_id = rs_in.liga_id
                  /\ Len(rs_out.sample) = m
                  /\ \A i \in 1..m :
                        rs_out.sample[i]
                          = Strip(StripTags(rs_in.options[NthConsidered(rs_in.options, i)][2]))
                  /\ n >= 1 => Len(rs_out.sample) >= 1
                  /\ "val" \notin DOMAIN rs_out

\* a failed call on a page with more than ten considered options, the
\* first option of the page being a discarded one
C8_Witness ==
    /\ rs_out # NotCalled
    /\ rs_out.kind = "RuntimeError"
    /\ Cardinality(Considered(rs_in.options)) > 10
    /\ 1 \notin Considered(rs_in.options)

-----------------------------------------------------------------------------
(* Properties of prefix_uid and the SUMMARY rewrite, checked under SpecTransform *)

\* the positions of the lines that start with key
KeyLines(ls, key) == { i \in 1..Len(ls) : StartsWith(ls[i], key) }

\* `after` is `before` with at most its first line that starts with key changed
OnlyFirstChanged(before, after, key) ==
    LET lb == LinesOf(before)
        la == LinesOf(after)
    IN  /\ Len(la) = Len(lb)
        /\ \A i \in 1..Len(lb) :
              (KeyLines(lb, key) = {} \/ i # MinOf(KeyLines(lb, key))) => la[i] = lb[i]

\* `after` is `before` with every line that starts with key and has a value
\* rewritten to key, pre, value, post, and every other line kept
EveryKeyLineRewritten(before, after, key, pre, post) ==
    LET lb == LinesOf(before)
        la == LinesOf(after)
    IN  /\ Len(la) = Len(lb)
        /\ \A i \in 1..Len(lb) :
              la[i] = IF StartsWith(lb[i], key) /\ Len(lb[i]) > 1
                      THEN <<key>> \o pre \o Tail(lb[i]) \o post
                      ELSE lb[i]

C6_UidAfterFirstDtstart ==
    LET lb == LinesOf(tx_in.ev)
        la == LinesOf(tx_out.ev2)
        d == MinOf(KeyLines(lb, "DTSTART"))
        prefix == Prefix(tx_in.liga_id, tx_in.ms_id)
    IN  ( /\ tx_out.again # NotYet
          /\ KeyLines(lb, "UID:") = {}
          /\ KeyLines(lb, "DTSTART") # {} ) =>
            /\ Len(la) = Len(lb) + 1
            /\ \A i \in 1..d : la[i] = lb[i]
            /\ \A i \in (d + 1)..Len(lb) : la[i + 1] = lb[i]
            /\ Len(la[d + 1]) = Len(prefix) + 4
            /\ SubSeq(la[d + 1], 1, Len(prefix) + 2) = <<"UID:">> \o prefix \o <<"-">>
            /\ la[d + 1][Len(prefix) + 4] = "@basketball-bund.net"
            /\ tx_out.again = tx_out.ev2

====
